---- MODULE Spec2Model ----
(***************************************************************************)
(* Header chain manager (HeaderChain) of srcd: the in-memory head pointer  *)
(* and the two caches layered over the durable header store, with          *)
(* NewHeaderChain, the lookups, SetCurrentHeader, SetGenesis and SetHead.   *)
(* A mutating call runs as a sequence of steps (one per visible store or   *)
(* durable write); lookups, cache evictions and a crash may interleave.    *)
(***************************************************************************)
EXTENDS Integers, Sequences, FiniteSets, TLC

\* ---------------------------------------------------------------- bounds
MaxHeight == 2      \* greatest header number of the header universe
NumForks == 1       \* side branches beside the main branch
MaxOps == 3         \* mutating calls and restarts in one behaviour
MaxReads == 1       \* concurrent lookups and cache evictions in one behaviour
MaxHashes == 3      \* greatest max given to GetBlockHashesFromHash
MaxByte == 2        \* greatest value of a byte of a node identity
MaxTime == 3        \* latest time a ping or pong was recorded at
MaxVersion == 2     \* greatest database version
MaxSeeds == 2       \* greatest n given to querySeeds
MaxCalls == 2       \* calls on an open node database in one behaviour
MaxSweeps == 1      \* ticks of the expirer's ticker on the open store
MaxRetries == 2     \* recreate-and-retry steps followed in one open

\* ------------------------------------------------------- header universe
\* common.Hash{} : the zero hash, "no hash"
ZeroHash == 0

\* a nil *types.Header
NilHeader == [Number |-> -1, ParentHash |-> ZeroHash, Extra |-> -1]

\* a nil *uint64
NoNumber == -1

\* the hash of the header of branch b at height n (a content hash: injective)
HashAt(b, n) == 1 + b * (MaxHeight + 1) + n

\* types.Header.Hash(): derived from the header's content
Hash(header) == HashAt(header.Extra, header.Number)

\* Branch 0 is the main branch 0..MaxHeight; branch b >= 1 holds the heights
\* b+1..MaxHeight and forks off the main branch's header of height b.
HeaderAt(b, n) ==
    [Number |-> n,
     ParentHash |-> IF n = 0 THEN ZeroHash
                    ELSE IF b > 0 /\ n = b + 1 THEN HashAt(0, b)
                    ELSE HashAt(b, n - 1),
     Extra |-> b]

\* the headers a chain store can hold
ChainHeaders ==
    {HeaderAt(x[1], x[2]) :
        x \in {y \in (0..NumForks) \X (0..MaxHeight) : y[1] = 0 \/ y[2] > y[1]}}

\* a genesis header of another chain, never written to the store
AltGenesis == [Number |-> 0, ParentHash |-> ZeroHash, Extra |-> NumForks + 1]

AllHeaders == ChainHeaders \cup {AltGenesis}

AllHashes == {Hash(h) : h \in AllHeaders}

HeaderByHash(hash) == CHOOSE h \in AllHeaders : Hash(h) = hash

RECURSIVE Ancestors(_)
\* a header and all its ancestors down to the genesis header
Ancestors(h) ==
    IF h.Number = 0 THEN {h}
    ELSE {h} \cup Ancestors(HeaderByHash(h.ParentHash))

\* ------------------------------------------------------------ the state
VARIABLES
    dbHeader,           \* durable: (number, hash) -> header
    dbNumber,           \* durable: hash -> number
    dbCanon,            \* durable: number -> canonical hash
    dbHeadHeader,       \* durable: the head header hash ("LastHeader")
    dbHeadBlock,        \* durable: the head block hash ("LastBlock")
    genesisHeader,      \* hc.genesisHeader
    currentHeader,      \* hc.currentHeader (atomic.Value)
    currentHeaderHash,  \* hc.currentHeaderHash
    headerCache,        \* hc.headerCache: hash -> header
    numberCache,        \* hc.numberCache: hash -> number
    pc,                 \* where the single writer is
    call,               \* the running (or last) mutating call: arguments and locals
    log,                \* what the running (or last) SetHead did, in order
    pre,                \* the state the running (or last) call started from
    done,               \* the last mutating call that returned
    nops,               \* mutating calls and restarts so far
    nreads              \* concurrent lookups and cache evictions so far

\* the node database of package discover5 (database.go)
VARIABLES
    lvl,                \* the leveldb store at the path: key -> blob
    self,               \* nodeDB.self
    runner,             \* nodeDB.runner (sync.Once): TRUE once Do has run
    quit,               \* nodeDB.quit: "open" or "closed"
    inst,               \* the nodeDB instance: its life and the call that opens it
    expirer,            \* the expirer goroutine and the sweep it is in
    seeds,              \* a querySeeds call in progress, or the last one returned
    hist,               \* history: what the calls of the behaviour did
    codec               \* makeKey and splitKey applied to an identity and a field

dbVars == <<dbHeader, dbNumber, dbCanon, dbHeadHeader, dbHeadBlock>>
memVars == <<genesisHeader, currentHeader, currentHeaderHash, headerCache, numberCache>>
histVars == <<call, log, pre, done, nops>>
chainVars == <<dbVars, memVars, pc, histVars, nreads>>
discVars == <<lvl, self, runner, quit, inst, expirer, seeds, hist, codec>>
vars == <<chainVars, discVars>>

EmptyMap == [k \in {} |-> 0]

\* a map with one entry added or replaced
Put(map, key, val) ==
    [k \in DOMAIN map \cup {key} |-> IF k = key THEN val ELSE map[k]]

\* a map without the entries of keys
Drop(map, keys) == [k \in DOMAIN map \ keys |-> map[k]]

\* ------------------------------------------------- rawdb (store accessor)
ReadHeader(hash, number) ==
    IF <<number, hash>> \in DOMAIN dbHeader THEN dbHeader[<<number, hash>>]
    ELSE NilHeader

ReadHeaderNumber(hash) ==
    IF hash \in DOMAIN dbNumber THEN dbNumber[hash] ELSE NoNumber

ReadCanonicalHash(number) ==
    IF number \in DOMAIN dbCanon THEN dbCanon[number] ELSE ZeroHash

ReadHeadBlockHash == dbHeadBlock

\* database.Batch: the deletions put into it, applied together by Write
EmptyBatch == [headers |-> {}, canon |-> {}]

\* rawdb.DeleteHeader(batch, hash, num): the header and its hash -> number entry
DeleteHeader(batch, hash, num) ==
    [batch EXCEPT !.headers = @ \cup {<<num, hash>>}]

\* rawdb.DeleteCanonicalHash(batch, i)
DeleteCanonicalHash(batch, i) == [batch EXCEPT !.canon = @ \cup {i}]

\* ------------------------------------------------------------ lookups
\* The lookups take the caches c = [hdr, num] and give the result and the
\* caches they leave.
Caches == [hdr |-> headerCache, num |-> numberCache]

GetBlockNumber(c, hash) ==
    IF hash \in DOMAIN c.num THEN [res |-> c.num[hash], c |-> c]
    ELSE LET number == ReadHeaderNumber(hash) IN
         [res |-> number,
          c |-> IF number # NoNumber
                THEN [c EXCEPT !.num = Put(c.num, hash, number)]
                ELSE c]

GetHeader(c, hash, number) ==
    IF hash \in DOMAIN c.hdr THEN [res |-> c.hdr[hash], c |-> c]
    ELSE LET header == ReadHeader(hash, number) IN
         IF header = NilHeader THEN [res |-> NilHeader, c |-> c]
         ELSE [res |-> header, c |-> [c EXCEPT !.hdr = Put(c.hdr, hash, header)]]

GetHeaderByHash(c, hash) ==
    LET n == GetBlockNumber(c, hash) IN
    IF n.res = NoNumber THEN [res |-> NilHeader, c |-> n.c]
    ELSE GetHeader(n.c, hash, n.res)

\* a lookup by number that takes any stored header of that height
GetHeaderByNumberAnyBranch(c, number) ==
    LET known == {k \in DOMAIN dbHeader : k[1] = number} IN
    IF known = {} THEN [res |-> NilHeader, c |-> c]
    ELSE GetHeader(c, (CHOOSE k \in known : TRUE)[2], number)

GetHeaderByNumber(c, number) ==
    LET hash == ReadCanonicalHash(number) IN
    IF hash = ZeroHash THEN [res |-> NilHeader, c |-> c]
    ELSE GetHeader(c, hash, number)

\* header.Number.Uint64()-1: below height 0 the unsigned subtraction wraps to
\* 2^64-1, a height above every height of the universe
Uint64Max == MaxHeight + 1

PrevNumber(number) == IF number = 0 THEN Uint64Max ELSE number - 1

RECURSIVE GetBlockHashesFromHashLoop(_, _, _, _)
\* the loop of GetBlockHashesFromHash with left iterations to go
GetBlockHashesFromHashLoop(c, header, left, chain) ==
    IF left = 0 THEN [res |-> chain, c |-> c]
    ELSE LET next == header.ParentHash
             r == GetHeader(c, next, PrevNumber(header.Number))
         IN IF r.res = NilHeader THEN [res |-> chain, c |-> r.c]
            ELSE IF r.res.Number = 0
                 THEN [res |-> Append(chain, next), c |-> r.c]
                 ELSE GetBlockHashesFromHashLoop(r.c, r.res, left - 1,
                                                 Append(chain, next))

GetBlockHashesFromHash(c, hash, max) ==
    LET h == GetHeaderByHash(c, hash) IN
    IF h.res = NilHeader THEN [res |-> <<>>, c |-> h.c]
    ELSE GetBlockHashesFromHashLoop(h.c, h.res, max, <<>>)

CurrentHeader == currentHeader

\* ------------------------------------------------------------ history
NoCall == [op |-> "none", head |-> 0, hdr |-> NilHeader, delFn |-> FALSE,
           height |-> 0, batch |-> EmptyBatch]

NoDone == [op |-> "none", head |-> 0, hdr |-> NilHeader, n |-> 0]

\* the state a call starts from
Snapshot ==
    [cur |-> currentHeader, canon |-> dbCanon, headers |-> DOMAIN dbHeader,
     headHeader |-> dbHeadHeader, prev |-> done, at |-> pc]

NoSnapshot ==
    [cur |-> NilHeader, canon |-> EmptyMap, headers |-> {},
     headHeader |-> ZeroHash, prev |-> NoDone, at |-> "boot"]

\* ------------------------------------------------------------ Init
\* A store is empty (no genesis written yet) or holds a canonical chain from
\* the genesis header to a tip, the head header hash of that tip, the head
\* block hash (none, the tip or the tip's parent: the block chain is at or
\* behind the header chain), and possibly the headers of one whole branch
\* beside it (a side branch, or main-branch headers not yet canonical).
SideTips == {h \in ChainHeaders : h.Number = MaxHeight}

StoreOf(tip, side) ==
    LET hs == Ancestors(tip) \cup Ancestors(side) IN
    /\ dbHeader = [k \in {<<h.Number, Hash(h)>> : h \in hs} |-> HeaderByHash(k[2])]
    /\ dbNumber = [k \in {Hash(h) : h \in hs} |-> HeaderByHash(k).Number]
    /\ dbCanon = [n \in 0..tip.Number |->
                    Hash(CHOOSE h \in Ancestors(tip) : h.Number = n)]
    /\ dbHeadHeader = Hash(tip)
    /\ dbHeadBlock \in {ZeroHash, Hash(tip), tip.ParentHash}

EmptyStore ==
    /\ dbHeader = EmptyMap
    /\ dbNumber = EmptyMap
    /\ dbCanon = EmptyMap
    /\ dbHeadHeader = ZeroHash
    /\ dbHeadBlock = ZeroHash

\* no node database is in use
DiscOff ==
    /\ lvl = EmptyMap
    /\ self = <<>>
    /\ runner = FALSE
    /\ quit = "open"
    /\ inst = [pc |-> "none"]
    /\ expirer = [pc |-> "off"]
    /\ seeds = [pc |-> "idle"]
    /\ hist = <<>>
    /\ codec = [pc |-> "off"]

Init ==
    /\ DiscOff
    /\ \/ EmptyStore
       \/ \E tip \in ChainHeaders : \E side \in {tip} \cup SideTips : StoreOf(tip, side)
    /\ genesisHeader = NilHeader
    /\ currentHeader = NilHeader
    /\ currentHeaderHash = ZeroHash
    /\ headerCache = EmptyMap
    /\ numberCache = EmptyMap
    /\ pc = "boot"
    /\ call = NoCall
    /\ log = <<>>
    /\ pre = NoSnapshot
    /\ done = NoDone
    /\ nops = 0
    /\ nreads = 0

\* ------------------------------------------------------ NewHeaderChain
\* a constructor that always starts from the genesis header
NewHeadGenesisOnly(c, genesis) == [res |-> genesis, c |-> c]

\* The head NewHeaderChain adopts: the genesis header, or the header of the
\* head block hash when that resolves.
NewHead(c, genesis) ==
    LET head == ReadHeadBlockHash IN
    IF head # ZeroHash
    THEN LET chead == GetHeaderByHash(c, head) IN
         [res |-> IF chead.res # NilHeader THEN chead.res ELSE genesis,
          c |-> chead.c]
    ELSE [res |-> genesis, c |-> c]

NewHeaderChain ==
    /\ pc = "boot"
    /\ LET g == GetHeaderByNumber([hdr |-> EmptyMap, num |-> EmptyMap], 0) IN
       IF g.res = NilHeader
       THEN /\ pc' = "ErrNoGenesis"
            /\ UNCHANGED memVars
       ELSE LET h == NewHead(g.c, g.res) IN
            /\ genesisHeader' = g.res
            /\ currentHeader' = h.res
            /\ currentHeaderHash' = Hash(h.res)
            /\ headerCache' = h.c.hdr
            /\ numberCache' = h.c.num
            /\ pc' = "idle"
    /\ done' = [NoDone EXCEPT !.op = "NewHeaderChain"]
    /\ UNCHANGED <<discVars, dbVars, call, log, pre, nops, nreads>>

\* ------------------------------------------------------ concurrent readers
Running == pc \notin {"boot", "ErrNoGenesis"}

\* what every step of a reader does beside its cache traffic
Reader ==
    /\ nreads < MaxReads
    /\ nreads' = nreads + 1
    /\ UNCHANGED <<discVars, dbVars, genesisHeader, currentHeader, currentHeaderHash, pc, histVars>>

CallGetHeader(hash, number) ==
    /\ Running
    /\ LET r == GetHeader(Caches, hash, number) IN
       /\ r.c # Caches    \* a hit, or a miss that finds nothing, changes no state
       /\ headerCache' = r.c.hdr
       /\ numberCache' = r.c.num
    /\ Reader

CallGetBlockNumber(hash) ==
    /\ Running
    /\ LET r == GetBlockNumber(Caches, hash) IN
       /\ r.c # Caches    \* a hit, or a miss that finds nothing, changes no state
       /\ headerCache' = r.c.hdr
       /\ numberCache' = r.c.num
    /\ Reader

CallGetHeaderByHash(hash) ==
    /\ Running
    /\ LET r == GetHeaderByHash(Caches, hash) IN
       /\ r.c # Caches    \* a hit, or a miss that finds nothing, changes no state
       /\ headerCache' = r.c.hdr
       /\ numberCache' = r.c.num
    /\ Reader

CallGetHeaderByNumber(number) ==
    /\ Running
    /\ LET r == GetHeaderByNumber(Caches, number) IN
       /\ r.c # Caches    \* a hit, or a miss that finds nothing, changes no state
       /\ headerCache' = r.c.hdr
       /\ numberCache' = r.c.num
    /\ Reader

CallGetBlockHashesFromHash(hash, max) ==
    /\ Running
    /\ LET r == GetBlockHashesFromHash(Caches, hash, max) IN
       /\ r.c # Caches    \* a hit, or a miss that finds nothing, changes no state
       /\ headerCache' = r.c.hdr
       /\ numberCache' = r.c.num
    /\ Reader

\* lru.Cache drops an entry when other traffic fills the cache
Evict ==
    /\ Running
    /\ \/ \E hash \in DOMAIN headerCache :
            /\ headerCache' = Drop(headerCache, {hash})
            /\ UNCHANGED numberCache
       \/ \E hash \in DOMAIN numberCache :
            /\ numberCache' = Drop(numberCache, {hash})
            /\ UNCHANGED headerCache
    /\ Reader

\* The process stops at any point; the durable store is kept, the manager is
\* built again by NewHeaderChain.
Crash ==
    /\ Running
    /\ nops < MaxOps
    /\ nops' = nops + 1
    /\ pre' = IF pc = "idle" THEN Snapshot ELSE [pre EXCEPT !.at = pc]
    /\ done' = [NoDone EXCEPT !.op = "Crash"]
    /\ pc' = "boot"
    /\ genesisHeader' = NilHeader
    /\ currentHeader' = NilHeader
    /\ currentHeaderHash' = ZeroHash
    /\ headerCache' = EmptyMap
    /\ numberCache' = EmptyMap
    /\ call' = NoCall
    /\ log' = <<>>
    /\ UNCHANGED <<discVars, dbVars, nreads>>

\* what a mutating call records when it starts
Begin(op, head, hdr, delFn) ==
    /\ pc = "idle"
    /\ nops < MaxOps
    /\ nops' = nops + 1
    /\ pre' = Snapshot
    /\ call' = [op |-> op, head |-> head, hdr |-> hdr, delFn |-> delFn,
                height |-> IF currentHeader # NilHeader
                           THEN currentHeader.Number ELSE 0,
                batch |-> EmptyBatch]
    /\ log' = <<>>

\* what a mutating call records when it returns: the call, and how many
\* headers its batch deleted
Return ==
    /\ pc' = "idle"
    /\ done' = [op |-> call.op, head |-> call.head, hdr |-> call.hdr,
                n |-> Cardinality(call.batch.headers)]

\* ---------------------------------------------------- SetCurrentHeader
\* the headers a caller holds: those the durable store has
StoredHeaders == {dbHeader[k] : k \in DOMAIN dbHeader}

\* a first step that swaps the in-memory head and leaves the durable write
\* for later
SetCurrentHeaderStoreFirst(head) ==
    /\ Begin("SetCurrentHeader", 0, head, FALSE)
    /\ currentHeader' = head
    /\ pc' = "SetCurrentHeader:220"
    /\ UNCHANGED <<discVars, dbVars, genesisHeader, currentHeaderHash, headerCache,
                   numberCache, done, nreads>>

\* rawdb.WriteHeadHeaderHash(hc.chainDb, head.Hash())
SetCurrentHeaderWrite(head) ==
    /\ Begin("SetCurrentHeader", 0, head, FALSE)
    /\ dbHeadHeader' = Hash(head)
    /\ pc' = "SetCurrentHeader:220"
    /\ UNCHANGED <<discVars, dbHeader, dbNumber, dbCanon, dbHeadBlock, memVars, done, nreads>>

\* hc.currentHeader.Store(head); hc.currentHeaderHash = head.Hash()
SetCurrentHeaderStore ==
    /\ pc = "SetCurrentHeader:220"
    /\ currentHeader' = call.hdr
    /\ currentHeaderHash' = Hash(call.hdr)
    /\ Return
    /\ UNCHANGED <<discVars, dbVars, genesisHeader, headerCache, numberCache,
                   call, log, pre, nops, nreads>>

\* ---------------------------------------------------------- SetGenesis
\* a genesis header is a header of number 0
GenesisHeaders == {h \in AllHeaders : h.Number = 0}

SetGenesis(head) ==
    /\ Begin("SetGenesis", 0, head, FALSE)
    /\ head # genesisHeader
    /\ genesisHeader' = head
    /\ pc' = "idle"
    /\ done' = [NoDone EXCEPT !.op = "SetGenesis", !.hdr = head]
    /\ UNCHANGED <<discVars, dbVars, currentHeader, currentHeaderHash, headerCache,
                   numberCache, nreads>>

\* ------------------------------------------------------------- SetHead
Event(ev, hash, num) == [ev |-> ev, hash |-> hash, num |-> num]

\* a loop condition that also takes the header of the target height
AboveHeadInclusive(hdr, head) == hdr # NilHeader /\ hdr.Number >= head

\* the loop condition: hdr != nil && hdr.Number.Uint64() > head
AboveHead(hdr, head) == hdr # NilHeader /\ hdr.Number > head

\* a loop body that puts the deletion into the batch before it calls back
VisitDeleteFirst(batch, hdr, delFn) ==
    LET hash == Hash(hdr)
        num == hdr.Number IN
    [batch |-> DeleteHeader(batch, hash, num),
     log |-> <<Event("DeleteHeader", hash, num)>>
             \o (IF delFn THEN <<Event("delFn", hash, num)>> ELSE <<>>)]

\* the loop body up to the deletion: the callback, then the deletion put into
\* the batch; gives the batch and the events in the order they happen
Visit(batch, hdr, delFn) ==
    LET hash == Hash(hdr)
        num == hdr.Number IN
    [batch |-> DeleteHeader(batch, hash, num),
     log |-> (IF delFn THEN <<Event("delFn", hash, num)>> ELSE <<>>)
             \o <<Event("DeleteHeader", hash, num)>>]

\* a rollback that stops one height early
RollbackCanonicalShort(batch, height, head) ==
    [batch EXCEPT !.canon = @ \cup {i \in 0..height : i > head + 1}]

\* a rollback that leaves the canonical numbering alone
RollbackCanonicalNone(batch, height, head) == batch

\* for i := height; i > head; i-- { rawdb.DeleteCanonicalHash(batch, i) }
RollbackCanonical(batch, height, head) ==
    [batch EXCEPT !.canon = @ \cup {i \in 0..height : i > head}]

\* a rewind without the fallback
HeadAfterRewindNoFallback(cur, genesis) == cur

\* if hc.CurrentHeader() == nil { hc.currentHeader.Store(hc.genesisHeader) }
HeadAfterRewind(cur, genesis) == IF cur = NilHeader THEN genesis ELSE cur

SetHeadBegin(head, delFn) ==
    /\ Begin("SetHead", head, NilHeader, delFn)
    /\ pc' = "SetHead:238"
    /\ UNCHANGED <<discVars, dbVars, memVars, done, nreads>>

\* one turn of the loop that walks down from the current head
SetHeadLoop ==
    /\ pc = "SetHead:238"
    /\ AboveHead(CurrentHeader, call.head)
    /\ LET hdr == CurrentHeader
           v == Visit(call.batch, hdr, call.delFn)
           parent == GetHeader(Caches, hdr.ParentHash, hdr.Number - 1) IN
       /\ call' = [call EXCEPT !.batch = v.batch]
       /\ log' = log \o v.log
                     \o (IF parent.res = NilHeader
                         THEN <<Event("nil", hdr.ParentHash, hdr.Number - 1)>>
                         ELSE <<>>)
       /\ currentHeader' = parent.res
       /\ headerCache' = parent.c.hdr
       /\ numberCache' = parent.c.num
    /\ UNCHANGED <<discVars, dbVars, genesisHeader, currentHeaderHash, pc, pre, done, nops, nreads>>

\* the canonical numbering is rolled back and the batch is committed
SetHeadWrite ==
    /\ pc = "SetHead:238"
    /\ ~AboveHead(CurrentHeader, call.head)
    /\ LET batch == RollbackCanonical(call.batch, call.height, call.head) IN
       /\ call' = [call EXCEPT !.batch = batch]
       /\ dbHeader' = Drop(dbHeader, batch.headers)
       /\ dbNumber' = Drop(dbNumber, {k[2] : k \in batch.headers})
       /\ dbCanon' = Drop(dbCanon, batch.canon)
       /\ log' = log \o <<Event("Write", ZeroHash, 0)>>
    /\ pc' = "SetHead:254"
    /\ UNCHANGED <<discVars, dbHeadHeader, dbHeadBlock, memVars, pre, done, nops, nreads>>

\* the head falls back to the genesis header when the walk ended on nil, and
\* the head hash is written
SetHeadFinish ==
    /\ pc = "SetHead:254"
    /\ currentHeader' = HeadAfterRewind(CurrentHeader, genesisHeader)
    /\ currentHeaderHash' = Hash(currentHeader')
    /\ dbHeadHeader' = currentHeaderHash'
    /\ Return
    /\ UNCHANGED <<discVars, dbHeader, dbNumber, dbCanon, dbHeadBlock, genesisHeader,
                   headerCache, numberCache, call, log, pre, nops, nreads>>

Next ==
    \/ NewHeaderChain
    \/ \E hash \in AllHashes, number \in 0..MaxHeight : CallGetHeader(hash, number)
    \/ \E hash \in AllHashes : CallGetBlockNumber(hash)
    \/ \E hash \in AllHashes : CallGetHeaderByHash(hash)
    \/ \E number \in 0..MaxHeight : CallGetHeaderByNumber(number)
    \/ \E hash \in AllHashes, max \in 0..MaxHashes : CallGetBlockHashesFromHash(hash, max)
    \/ Evict
    \/ Crash
    \/ \E head \in StoredHeaders : SetCurrentHeaderWrite(head)
    \/ SetCurrentHeaderStore
    \/ \E head \in GenesisHeaders : SetGenesis(head)
    \/ \E head \in 0..MaxHeight, delFn \in BOOLEAN : SetHeadBegin(head, delFn)
    \/ SetHeadLoop
    \/ SetHeadWrite
    \/ SetHeadFinish

Spec == Init /\ [][Next]_vars

\* ================================================= discover5: node database
\* A key is a byte string, written as a sequence of symbols: one symbol per
\* byte of an identity and one per segment of a name, the symbols of names
\* numbered in the byte order of the names (":discover" < ":tickets" < "n:" <
\* "version", ":findfail" < ":lastping" < ":lastpong" < ":localendpoint").

\* len(NodeID{})
IdLen == 2

NodeIDs == [1..IdLen -> 0..MaxByte]

nodeDBNilNodeID == [i \in 1..IdLen |-> 0]

\* time in hours since the epoch: 24 * time.Hour
nodeDBNodeExpiration == 24

nodeDBVersionKey == <<30>>

nodeDBItemPrefix == <<20>>

nodeDBDiscoverRoot == <<10>>

nodeDBDiscoverPing == nodeDBDiscoverRoot \o <<2>>

nodeDBDiscoverPong == nodeDBDiscoverRoot \o <<3>>

nodeDBDiscoverFindFails == nodeDBDiscoverRoot \o <<1>>

nodeDBDiscoverLocalEndpoint == nodeDBDiscoverRoot \o <<4>>

nodeDBTopicRegTickets == <<11>>

\* the field names the accessors of the database use, and the empty name
\* deleteNode uses
Fields ==
    {<<>>, nodeDBDiscoverRoot, nodeDBDiscoverPing, nodeDBDiscoverPong,
     nodeDBDiscoverFindFails, nodeDBDiscoverLocalEndpoint, nodeDBTopicRegTickets}

\* bytes.HasPrefix
HasPrefix(key, prefix) ==
    Len(prefix) <= Len(key) /\ SubSeq(key, 1, Len(prefix)) = prefix

\* bytes.Compare(a, b) < 0
KeyLess(a, b) ==
    \E i \in 1..(Len(b)) :
        /\ \A j \in 1..(i - 1) : j <= Len(a) /\ a[j] = b[j]
        /\ (i > Len(a) \/ (i - 1 < Len(a) /\ a[i] < b[i]))

\* a nil []byte: what a function with a []byte result holds when it runs off
\* its end without a return statement
NilBytes == <<>>

\* makeKey: the source returns the bare field for the zero identity and has
\* no statement for any other identity
makeKey(id, field) ==
    IF id = nodeDBNilNodeID THEN field ELSE NilBytes

splitKey(key) ==
    IF ~HasPrefix(key, nodeDBItemPrefix)
    THEN [id |-> nodeDBNilNodeID, field |-> key]
    ELSE LET item == SubSeq(key, Len(nodeDBItemPrefix) + 1, Len(key)) IN
         [id |-> SubSeq(item, 1, IdLen),
          field |-> SubSeq(item, IdLen + 1, Len(item))]

\* ------------------------------------------------------------ blobs
\* rlp.EncodeToBytes(node): the record of a node, with its identity
NodeBlob(id) == [kind |-> "node", id |-> id, val |-> 0]

\* binary.PutVarint(blob, n)
IntBlob(n) == [kind |-> "int", id |-> nodeDBNilNodeID, val |-> n]

\* binary.Varint of the leading bytes of an RLP list: the list header read
\* as a number, a small positive one
RLPVarint == 1

\* binary.Varint(blob)
Varint(blob) == IF blob.kind = "int" THEN blob.val ELSE RLPVarint

\* a nil *Node
NilNode == <<>>

\* ------------------------------------------------------------ accessors
\* The accessors take the store they read or write.
fetchInt64(store, key) ==
    IF key \notin DOMAIN store THEN 0 ELSE Varint(store[key])

storeInt64(store, key, n) == Put(store, key, IntBlob(n))

\* fetchRLP into a Node: the identity of the record, or NilNode on any error
fetchRLP(store, key) ==
    IF key \in DOMAIN store /\ store[key].kind = "node" THEN store[key].id
    ELSE NilNode

storeRLP(store, key, id) == Put(store, key, NodeBlob(id))

\* db.node(id): the identity of the node record found, or NilNode
node(store, id) == fetchRLP(store, makeKey(id, nodeDBDiscoverRoot))

updateNode(store, id) == storeRLP(store, makeKey(id, nodeDBDiscoverRoot), id)

\* A time.Time is its whole units and what is left below one unit (nsec is 0
\* or not). instance.Unix() drops the part below the unit; time.Unix(sec, 0)
\* is the time of a stored integer.
Unix(instance) == instance.sec

TimeUnix(sec) == [sec |-> sec, nsec |-> 0]

\* lastPong and lastPing give the units of the time.Unix(..., 0) they return
lastPong(store, id) == fetchInt64(store, makeKey(id, nodeDBDiscoverPong))

lastPing(store, id) == fetchInt64(store, makeKey(id, nodeDBDiscoverPing))

updateLastPing(store, id, instance) ==
    storeInt64(store, makeKey(id, nodeDBDiscoverPing), Unix(instance))

\* the counterpart of updateLastPing for the last-pong time
updateLastPong(store, id, instance) ==
    storeInt64(store, makeKey(id, nodeDBDiscoverPong), Unix(instance))

findFails(store, id) == fetchInt64(store, makeKey(id, nodeDBDiscoverFindFails))

\* deleteNode: every key under the prefix makeKey(id, "") is deleted
deleteNode(store, id) ==
    LET prefix == makeKey(id, <<>>) IN
    [k \in {x \in DOMAIN store : ~HasPrefix(x, prefix)} |-> store[k]]

\* ------------------------------------------------------------ iterators
\* lvl.NewIterator(nil, nil): the keys of a snapshot of the store, in order
RECURSIVE SortedKeys(_)
SortedKeys(keys) ==
    IF keys = {} THEN <<>>
    ELSE LET least == CHOOSE k \in keys : \A x \in keys \ {k} : KeyLess(k, x)
         IN <<least>> \o SortedKeys(keys \ {least})

\* it.Seek(key): what is left of the keys from the first one not below key
RECURSIVE Seek(_, _)
Seek(keys, key) ==
    IF keys = <<>> \/ ~KeyLess(Head(keys), key) THEN keys
    ELSE Seek(Tail(keys), key)

RECURSIVE nextNode(_, _)
\* nextNode(it): the identity of the first node record at or after the
\* iterator's position, NilNode when the keys run out
nextNode(snap, keys) ==
    IF keys = <<>> THEN NilNode
    ELSE IF splitKey(Head(keys)).field # nodeDBDiscoverRoot
              \/ snap[Head(keys)].kind # "node"
         THEN nextNode(snap, Tail(keys))
         ELSE snap[Head(keys)].id

\* ------------------------------------------------------------ the state
\* the identities the callers name
Peers == {id \in NodeIDs : \A i \in 2..IdLen : id[i] = 0}

\* the times the callers record, in hours
Times == {1, MaxTime}

\* the time.Time values the callers pass
Instants == [sec : Times, nsec : {0, 1}]

\* time.Now(): the expiry threshold Now - nodeDBNodeExpiration lies between
\* the times recorded
Now == nodeDBNodeExpiration + MaxTime - 1

Versions == 1..MaxVersion

NoInst == [pc |-> "none", version |-> 0, retries |-> 0]

NoExpirer == [pc |-> "off", threshold |-> 0, todo |-> <<>>, id |-> nodeDBNilNodeID]

NoSeeds ==
    [pc |-> "idle", n |-> 0, maxAge |-> 0, now |-> 0, nodes |-> <<>>,
     seeks |-> 0, ctr |-> 0, snap |-> EmptyMap]

NoHist ==
    [calls |-> 0, started |-> 0, ensures |-> 0, ticks |-> 0, lateTicks |-> 0,
     sweepPre |-> EmptyMap, clean |-> FALSE, swept |-> FALSE,
     openPre |-> EmptyMap]

NoCodec ==
    [pc |-> "off", id |-> nodeDBNilNodeID, field |-> <<>>, key |-> <<>>,
     out |-> [id |-> nodeDBNilNodeID, field |-> <<>>]]

\* what one call of a writer leaves of a store
Wrote(store) ==
    {updateNode(store, id) : id \in Peers}
    \cup {updateLastPing(store, id, t) : id \in Peers, t \in Instants}
    \cup {updateLastPong(store, id, t) : id \in Peers, t \in Instants}

\* The directory at the path is empty or holds what an earlier run of the
\* database left there: a version marker, and the write of one call.
InitialStores ==
    LET payloads == {EmptyMap} \cup Wrote(EmptyMap) IN
    payloads \cup {storeInt64(r, nodeDBVersionKey, v) : r \in payloads, v \in Versions}

\* no header chain is in use
ChainOff ==
    /\ EmptyStore
    /\ genesisHeader = NilHeader
    /\ currentHeader = NilHeader
    /\ currentHeaderHash = ZeroHash
    /\ headerCache = EmptyMap
    /\ numberCache = EmptyMap
    /\ pc = "boot"
    /\ call = NoCall
    /\ log = <<>>
    /\ pre = NoSnapshot
    /\ done = NoDone
    /\ nops = 0
    /\ nreads = 0

InitDisc ==
    /\ ChainOff
    /\ lvl \in InitialStores
    /\ self \in Peers
    /\ runner = FALSE
    /\ quit = "open"
    /\ inst = NoInst
    /\ expirer = NoExpirer
    /\ seeds = NoSeeds
    /\ hist = NoHist
    /\ codec = NoCodec

\* ------------------------------------------------- newPersistentNodeDB
\* a recreate step that drops the version marker alone
RemoveAllMarkerOnly(store) == Drop(store, {nodeDBVersionKey})

\* os.RemoveAll(path) followed by leveldb.OpenFile(path): an empty store
RemoveAll(store) == EmptyMap

\* leveldb.OpenFile succeeds; the version check follows
newPersistentNodeDB(version) ==
    /\ inst.pc = "none"
    /\ inst' = [pc |-> "version", version |-> version, retries |-> 0]
    /\ hist' = [hist EXCEPT !.openPre = lvl]
    /\ runner' = FALSE
    /\ quit' = "open"
    /\ UNCHANGED <<chainVars, codec, lvl, self, expirer, seeds>>

\* the switch on db.Get(nodeDBVersionKey): write the marker, accept it, or
\* remove the directory and call newPersistentNodeDB again
CheckVersion ==
    /\ inst.pc = "version"
    /\ LET currentVer == IntBlob(inst.version) IN
       IF nodeDBVersionKey \notin DOMAIN lvl
       THEN /\ lvl' = Put(lvl, nodeDBVersionKey, currentVer)
            /\ inst' = [inst EXCEPT !.pc = "ready"]
       ELSE IF lvl[nodeDBVersionKey] = currentVer
            THEN /\ inst' = [inst EXCEPT !.pc = "ready"]
                 /\ UNCHANGED lvl
            ELSE /\ inst.retries < MaxRetries
                 /\ lvl' = RemoveAll(lvl)
                 /\ inst' = [inst EXCEPT !.retries = @ + 1]
    /\ UNCHANGED <<chainVars, codec, self, runner, quit, expirer, seeds, hist>>

\* what the reads of the instance find: nothing when the store is closed
Live == IF inst.pc = "ready" THEN lvl ELSE EmptyMap

\* ------------------------------------------------------------ writers
\* The callers of the instance are one goroutine: its calls follow each
\* other; the expirer runs beside them.
Callable ==
    /\ inst.pc = "ready"
    /\ seeds.pc # "loop"
    /\ hist.calls < MaxCalls

Write(store) ==
    /\ Callable
    /\ lvl' = store
    /\ hist' = [hist EXCEPT !.calls = @ + 1, !.clean = FALSE]
    /\ UNCHANGED <<chainVars, codec, self, runner, quit, inst, expirer, seeds>>

CallUpdateNode(id) == Write(updateNode(lvl, id))

CallUpdateLastPing(id, instance) == Write(updateLastPing(lvl, id, instance))

CallUpdateLastPong(id, instance) == Write(updateLastPong(lvl, id, instance))

\* ------------------------------------------------------------ expirer
\* a latch that runs the function on every call
OnceDoAlways(ran) == TRUE

\* sync.Once.Do: the function runs when no call has run it before
OnceDo(ran) == ~ran

ensureExpirer ==
    /\ Callable
    /\ IF OnceDo(runner)
       THEN /\ runner' = TRUE
            /\ expirer' = [NoExpirer EXCEPT !.pc = "select"]
            /\ hist' = [hist EXCEPT !.calls = @ + 1, !.ensures = @ + 1,
                                    !.started = @ + 1]
       ELSE /\ hist' = [hist EXCEPT !.calls = @ + 1, !.ensures = @ + 1]
            /\ UNCHANGED <<runner, expirer>>
    /\ UNCHANGED <<chainVars, codec, lvl, self, quit, inst, seeds>>

\* case <-tick.C: expireNodes starts; its iterator is a snapshot of the
\* store, empty when the store is closed. The ticks on an open store are
\* counted up to MaxSweeps; on a closed store the ticker goes on firing.
ExpirerTick ==
    /\ expirer.pc = "select"
    /\ hist.ticks < MaxSweeps \/ quit = "closed"
    /\ expirer' = [expirer EXCEPT
                     !.pc = "sweep",
                     !.threshold = Now - nodeDBNodeExpiration,
                     !.todo = IF inst.pc = "ready" THEN SortedKeys(DOMAIN lvl)
                              ELSE <<>>]
    /\ hist' = [hist EXCEPT
                  !.ticks = IF @ < MaxSweeps THEN @ + 1 ELSE @,
                  !.lateTicks = IF quit = "closed" THEN 1 ELSE @,
                  !.sweepPre = lvl, !.clean = TRUE, !.swept = FALSE]
    /\ UNCHANGED <<chainVars, codec, lvl, self, runner, quit, inst, seeds>>

\* one turn of the loop of expireNodes up to the call of deleteNode
ExpireNodesVisit ==
    /\ expirer.pc = "sweep"
    /\ expirer.todo # <<>>
    /\ LET k == splitKey(Head(expirer.todo)) IN
       IF k.field # nodeDBDiscoverRoot
       THEN expirer' = [expirer EXCEPT !.todo = Tail(@)]
       ELSE IF k.id # self /\ lastPong(Live, k.id) > expirer.threshold
            THEN expirer' = [expirer EXCEPT !.todo = Tail(@)]
            ELSE expirer' = [expirer EXCEPT !.todo = Tail(@), !.pc = "delete",
                                            !.id = k.id]
    /\ UNCHANGED <<chainVars, codec, lvl, self, runner, quit, inst, seeds, hist>>

\* db.deleteNode(id) of expireNodes
ExpireNodesDelete ==
    /\ expirer.pc = "delete"
    /\ lvl' = IF inst.pc = "ready" THEN deleteNode(lvl, expirer.id) ELSE lvl
    /\ expirer' = [expirer EXCEPT !.pc = "sweep"]
    /\ UNCHANGED <<chainVars, codec, self, runner, quit, inst, seeds, hist>>

\* expireNodes returns; the expirer waits for the next tick
ExpireNodesReturn ==
    /\ expirer.pc = "sweep"
    /\ expirer.todo = <<>>
    /\ expirer' = [expirer EXCEPT !.pc = "select"]
    /\ hist' = [hist EXCEPT !.swept = TRUE]
    /\ UNCHANGED <<chainVars, codec, lvl, self, runner, quit, inst, seeds>>

\* close(db.quit); db.lvl.Close()
close ==
    /\ Callable
    /\ quit' = "closed"
    /\ inst' = [inst EXCEPT !.pc = "closed"]
    /\ hist' = [hist EXCEPT !.calls = @ + 1]
    /\ UNCHANGED <<chainVars, codec, lvl, self, runner, expirer, seeds>>

\* ------------------------------------------------------------ querySeeds
\* the greatest ages the callers accept
MaxAges == {0, Now - MaxTime, Now}

\* a loop that gives every wanted node six seeks
SeekLimitSix(n) == n * 6

\* seeks < n*5
SeekLimit(n) == n * 5

\* the identities of a list of nodes
IDsOf(nodes) == {nodes[i] : i \in 1..Len(nodes)}

\* a candidate taken whether or not the list holds it already
AcceptsDuplicates(nodes, found, maxAge) ==
    /\ found # self
    /\ ~(Now - lastPong(Live, found) > maxAge)

\* the checks of querySeeds on the node a seek found
Accepts(nodes, found, maxAge) ==
    /\ found # self
    /\ ~(Now - lastPong(Live, found) > maxAge)
    /\ found \notin IDsOf(nodes)

QuerySeedsBegin(n, maxAge) ==
    /\ Callable
    /\ seeds' = [pc |-> "loop", n |-> n, maxAge |-> maxAge, now |-> Now,
                 nodes |-> <<>>, seeks |-> 0, ctr |-> 0, snap |-> lvl]
    /\ hist' = [hist EXCEPT !.calls = @ + 1]
    /\ UNCHANGED <<chainVars, codec, lvl, self, runner, quit, inst, expirer>>

\* one turn of the seek loop; rand are the bytes rand.Read gives
QuerySeedsSeek(rand) ==
    /\ seeds.pc = "loop"
    /\ Len(seeds.nodes) < seeds.n
    /\ seeds.seeks < SeekLimit(seeds.n)
    /\ LET id == [rand EXCEPT ![1] = (seeds.ctr + (rand[1] % 16)) % (MaxByte + 1)]
           found == nextNode(seeds.snap,
                             Seek(SortedKeys(DOMAIN seeds.snap),
                                  makeKey(id, nodeDBDiscoverRoot)))
       IN seeds' = [seeds EXCEPT
                      !.seeks = @ + 1,
                      !.ctr = IF found = NilNode THEN 0 ELSE id[1],
                      !.nodes = IF found # NilNode
                                   /\ Accepts(seeds.nodes, found, seeds.maxAge)
                                THEN Append(@, found) ELSE @]
    /\ UNCHANGED <<chainVars, codec, lvl, self, runner, quit, inst, expirer, hist>>

QuerySeedsReturn ==
    /\ seeds.pc = "loop"
    /\ ~(Len(seeds.nodes) < seeds.n /\ seeds.seeks < SeekLimit(seeds.n))
    /\ seeds' = [seeds EXCEPT !.pc = "done", !.ctr = 0]
    /\ UNCHANGED <<chainVars, codec, lvl, self, runner, quit, inst, expirer, hist>>

\* ------------------------------------------------------------ specification
ExpirerNext ==
    \/ ExpirerTick
    \/ ExpireNodesVisit
    \/ ExpireNodesDelete
    \/ ExpireNodesReturn

NextDisc ==
    \/ \E version \in Versions : newPersistentNodeDB(version)
    \/ CheckVersion
    \/ \E id \in Peers : CallUpdateNode(id)
    \/ \E id \in Peers, instance \in Instants : CallUpdateLastPing(id, instance)
    \/ \E id \in Peers, instance \in Instants : CallUpdateLastPong(id, instance)
    \/ ensureExpirer
    \/ ExpirerTick
    \/ ExpireNodesVisit
    \/ ExpireNodesDelete
    \/ ExpireNodesReturn
    \/ \E n \in 0..MaxSeeds, maxAge \in MaxAges : QuerySeedsBegin(n, maxAge)
    \/ \E rand \in NodeIDs : QuerySeedsSeek(rand)
    \/ QuerySeedsReturn
    \/ close

SpecDisc == InitDisc /\ [][NextDisc]_vars

\* the expirer goroutine is scheduled and its ticker fires
FairSpecDisc == SpecDisc /\ WF_vars(ExpirerNext)

\* ------------------------------------------------- makeKey and splitKey
\* An identity and a field are given; makeKey builds the key, splitKey
\* takes it apart.
InitKey ==
    /\ ChainOff
    /\ lvl = EmptyMap
    /\ self = nodeDBNilNodeID
    /\ runner = FALSE
    /\ quit = "open"
    /\ inst = NoInst
    /\ expirer = NoExpirer
    /\ seeds = NoSeeds
    /\ hist = NoHist
    /\ \E id \in NodeIDs, field \in Fields :
          codec = [NoCodec EXCEPT !.pc = "given", !.id = id, !.field = field]

CallMakeKey ==
    /\ codec.pc = "given"
    /\ codec' = [codec EXCEPT !.pc = "made", !.key = makeKey(codec.id, codec.field)]
    /\ UNCHANGED <<chainVars, lvl, self, runner, quit, inst, expirer, seeds, hist>>

CallSplitKey ==
    /\ codec.pc = "made"
    /\ codec' = [codec EXCEPT !.pc = "split", !.out = splitKey(codec.key)]
    /\ UNCHANGED <<chainVars, lvl, self, runner, quit, inst, expirer, seeds, hist>>

NextKey ==
    \/ CallMakeKey
    \/ CallSplitKey

SpecKey == InitKey /\ [][NextKey]_vars

\* ================================================================ claims
SetHeadPcs == {"SetHead:238", "SetHead:254"}

\* SetHead has returned and no other mutating call has started since
SetHeadReturned == pc = "idle" /\ done.op = "SetHead" /\ call.op = "SetHead"

\* what a manager with empty caches reads from the durable store
Cold == [hdr |-> EmptyMap, num |-> EmptyMap]

\* every entry of a canonical index points at a header of a header store
CanonSound(canon, headers) ==
    \A n \in DOMAIN canon : <<n, canon[n]>> \in headers

\* The call started from a store that holds the genesis header and a linearly
\* chained canonical chain of the heights 1..N, with the head at height N.
LinearChainBefore ==
    /\ pre.cur # NilHeader
    /\ DOMAIN pre.canon = 0..pre.cur.Number
    /\ CanonSound(pre.canon, pre.headers)
    /\ pre.canon[pre.cur.Number] = Hash(pre.cur)
    /\ \A n \in 1..pre.cur.Number :
          HeaderByHash(pre.canon[n]).ParentHash = pre.canon[n - 1]

\* C1: for a store that holds genesis and a linearly chained canonical chain
\* 1..N with the head at N, and 0 <= h < N: after SetHead(h, cb) returns,
\* GetHeaderByNumber(n) is absent for every n > h, GetHeaderByNumber(h) is the
\* header of height h, and CurrentHeader() is the header of height h.
C1_SetHeadRewindsLinearChain ==
    (SetHeadReturned /\ LinearChainBefore /\ call.head < pre.cur.Number) =>
        /\ \A n \in (call.head + 1)..MaxHeight :
              GetHeaderByNumber(Caches, n).res = NilHeader
        /\ GetHeaderByNumber(Caches, call.head).res
              = HeaderByHash(pre.canon[call.head])
        /\ CurrentHeader = HeaderByHash(pre.canon[call.head])

\* a rewind of a linear chain that removed two heights
C1_Witness ==
    /\ SetHeadReturned /\ LinearChainBefore
    /\ pre.cur.Number = 2 /\ call.head = 0
    /\ CurrentHeader = HeaderAt(0, 0)

\* the positions of the log that hold an event of one kind
EventsAt(ev) == {i \in 1..Len(log) : log[i].ev = ev}

RECURSIVE WalkFrom(_, _)
\* the header k steps of parent pointers below the head the call started from
WalkFrom(hdr, k) ==
    IF k = 0 THEN hdr ELSE WalkFrom(HeaderByHash(hdr.ParentHash), k - 1)

\* C2: during one SetHead(h, cb) call the delete callback is invoked exactly
\* once for every header of the current chain above height h (the walk down the
\* parent pointers from the head, as far as parents are found), never for a
\* header of height <= h, each invocation before that header's deletion is put
\* into the batch, and every invocation before the batch is committed.
C2_DeleteCallbackOncePerRemovedHeader ==
    (call.op = "SetHead" /\ call.delFn) =>
        LET cbs == EventsAt("delFn") IN
        /\ \A i, j \in cbs : log[i].hash = log[j].hash => i = j
        /\ \A i \in cbs : log[i].num > call.head
        /\ \A j \in EventsAt("DeleteHeader") :
              \E i \in cbs : i < j /\ log[i].hash = log[j].hash
        /\ \A w \in EventsAt("Write") : \A i \in cbs : i < w
        /\ \A i \in cbs :
              log[i].hash = Hash(WalkFrom(pre.cur, Cardinality({j \in cbs : j < i})))
        /\ SetHeadReturned =>
              \/ EventsAt("nil") # {}
              \/ /\ pre.cur.Number <= call.head
                 /\ cbs = {}
              \/ /\ pre.cur.Number > call.head
                 /\ Cardinality(cbs) = pre.cur.Number - call.head

\* a returned rewind that called back for two headers
C2_Witness ==
    /\ SetHeadReturned /\ call.delFn
    /\ Cardinality(EventsAt("delFn")) = 2
    /\ EventsAt("Write") # {}

\* C3: if every canonical-index entry points at a stored header before SetHead
\* starts, then in every durable state reachable by a crash at any step of
\* SetHead every remaining canonical-index entry points at a stored header.
C3_CrashLeavesCanonicalIndexSound ==
    ((pc \in SetHeadPcs \/ (done.op = "Crash" /\ pre.at \in SetHeadPcs))
        /\ CanonSound(pre.canon, pre.headers)) =>
        CanonSound(dbCanon, DOMAIN dbHeader)

\* a crash after the batch was committed and before the head hash is written,
\* the batch having deleted headers and canonical entries
C3_Witness ==
    /\ done.op = "Crash" /\ pre.at = "SetHead:254"
    /\ CanonSound(pre.canon, pre.headers)
    /\ DOMAIN dbHeader # pre.headers
    /\ dbCanon # pre.canon
    /\ dbHeadHeader = pre.headHeader

\* C4: after NewHeaderChain succeeds the current head pointer is non-null in
\* every reachable state, the intermediate states of a running SetHead that a
\* concurrent caller of CurrentHeader() observes included.
C4_CurrentHeaderNeverNil == Running => CurrentHeader # NilHeader

\* C5: if the walk of SetHead(h, cb) does not find a parent header before it
\* reaches a header of height <= h, then when SetHead returns CurrentHeader()
\* is the in-memory genesis header and the persisted head hash is its hash.
C5_MissingParentFallsBackToGenesis ==
    (SetHeadReturned /\ EventsAt("nil") # {}) =>
        /\ CurrentHeader = genesisHeader
        /\ dbHeadHeader = Hash(genesisHeader)

\* a returned rewind whose walk ended on a missing parent above the genesis
\* height, after the callback ran for the header whose parent is missing
C5_Witness ==
    /\ SetHeadReturned
    /\ \E i \in EventsAt("nil") : log[i].num > 0
    /\ EventsAt("delFn") # {}
    /\ CurrentHeader = genesisHeader

RestartedAfterSetCurrentHeader ==
    /\ pc = "idle" /\ done.op = "NewHeaderChain"
    /\ pre.at = "idle" /\ pre.prev.op = "SetCurrentHeader"

\* C7: after SetCurrentHeader(H) completes for a header H stored in durable
\* storage, a restart yields CurrentHeader() == H: the head key written by
\* SetCurrentHeader is the one read at initialization.
C7_RestartAdoptsSetCurrentHeader ==
    (RestartedAfterSetCurrentHeader
        /\ <<pre.prev.hdr.Number, Hash(pre.prev.hdr)>> \in DOMAIN dbHeader) =>
        CurrentHeader = pre.prev.hdr

\* C8: in SetCurrentHeader(H) the durable head-hash write happens before the
\* in-memory head swap: in no state of the call does CurrentHeader() return H
\* while the durable head hash is not yet H's hash.
C8_HeadHashWrittenBeforeSwap ==
    ((pc = "SetCurrentHeader:220" \/ (pc = "idle" /\ done.op = "SetCurrentHeader"))
        /\ call.op = "SetCurrentHeader"
        /\ call.hdr # pre.cur
        /\ CurrentHeader = call.hdr) =>
        dbHeadHeader = Hash(call.hdr)

\* between the two steps: the durable head hash is H's, the in-memory head is
\* still the previous head
C8_Witness ==
    /\ pc = "SetCurrentHeader:220"
    /\ call.hdr # pre.cur
    /\ pre.headHeader # Hash(call.hdr)
    /\ dbHeadHeader = Hash(call.hdr)
    /\ CurrentHeader = pre.cur

\* the store has a canonical header of number 0
HasGenesis ==
    /\ 0 \in DOMAIN dbCanon
    /\ dbCanon[0] # ZeroHash
    /\ <<0, dbCanon[0]>> \in DOMAIN dbHeader

\* the persisted head hash read at initialization is set and resolves to a
\* stored header
HeadResolves ==
    /\ dbHeadBlock # ZeroHash
    /\ dbHeadBlock \in DOMAIN dbNumber
    /\ <<dbNumber[dbHeadBlock], dbHeadBlock>> \in DOMAIN dbHeader

\* NewHeaderChain has returned and no mutating call has started since
Constructed == done.op = "NewHeaderChain" /\ pc \in {"idle", "ErrNoGenesis"}

C10_CachesNeverChangeResults ==
    Running =>
        \A hash \in AllHashes :
            LET number == HeaderByHash(hash).Number IN
            /\ GetHeaderByHash(Caches, hash).res = GetHeaderByHash(Cold, hash).res
            /\ GetHeader(Caches, hash, number).res = ReadHeader(hash, number)

\* C11: GetHeaderByNumber(n) gives the header whose hash is the canonical
\* index entry of height n, and no header when the canonical index has no
\* entry of height n, whatever headers of that height are stored and found
\* by GetHeader(hash, n).
C11_GetHeaderByNumberIsCanonical ==
    \A n \in 0..MaxHeight :
        LET r == GetHeaderByNumber(Caches, n).res IN
        IF n \in DOMAIN dbCanon
        THEN r # NilHeader /\ Hash(r) = dbCanon[n] /\ r.Number = n
        ELSE r = NilHeader

\* a running manager whose store has a header of a height without canonical
\* entry: GetHeader finds it, GetHeaderByNumber gives none
C11_Witness ==
    /\ Running
    /\ \E h \in StoredHeaders :
          /\ h.Number \notin DOMAIN dbCanon
          /\ GetHeader(Caches, Hash(h), h.Number).res = h
          /\ GetHeaderByNumber(Caches, h.Number).res = NilHeader

RECURSIVE StoredParents(_, _)
\* the hashes of the stored ancestors of header h, parent first, up to the
\* genesis header, the first parent the store does not hold, or max of them
StoredParents(h, max) ==
    IF max = 0 \/ h.Number = 0 THEN <<>>
    ELSE LET k == <<h.Number - 1, h.ParentHash>> IN
         IF k \in DOMAIN dbHeader
         THEN <<h.ParentHash>> \o StoredParents(dbHeader[k], max - 1)
         ELSE <<>>

\* the header the store holds under a hash, NilHeader when it holds none
StoredHeader(hash) ==
    IF hash \in DOMAIN dbNumber THEN ReadHeader(hash, dbNumber[hash])
    ELSE NilHeader

\* the result of GetBlockHashesFromHash(hash, max) is what the store gives
HashesFromStore(hash, max) ==
    LET r == GetBlockHashesFromHash(Caches, hash, max).res
        h == StoredHeader(hash)
    IN IF h = NilHeader THEN r = <<>>
       ELSE /\ Len(r) <= max
            /\ \A i \in 1..Len(r) : r[i] # hash
            /\ r = StoredParents(h, max)

\* C12: for a stored start hash GetBlockHashesFromHash(hash, max) gives at
\* most max hashes, the i-th the hash of the i-th ancestor (parent first),
\* never the start hash, ending at the genesis hash or at the first parent
\* that is missing; for an unknown start hash it gives nothing.
C12_GetBlockHashesFromHashWalksParents ==
    Running => \A hash \in AllHashes, max \in 0..MaxHashes : HashesFromStore(hash, max)

\* the caches hold nothing the store does not hold
CachesFresh ==
    /\ \A hash \in DOMAIN headerCache : StoredHeader(hash) = headerCache[hash]
    /\ \A hash \in DOMAIN numberCache : ReadHeaderNumber(hash) = numberCache[hash]

\* the same walk holds whenever no cache entry outlives its header
GetBlockHashesFromHashFreshCaches ==
    (Running /\ CachesFresh) =>
        \A hash \in AllHashes, max \in 0..MaxHashes : HashesFromStore(hash, max)

\* ------------------------------------------------- discover5 claims
\* what the accessors of the database give for an identity
RecordOf(store, id) ==
    [node |-> node(store, id), ping |-> lastPing(store, id),
     pong |-> lastPong(store, id), fails |-> findFails(store, id)]

NoRecord == [node |-> NilNode, ping |-> 0, pong |-> 0, fails |-> 0]

\* a sweep of the open store has run from its first key to its return, and
\* no caller wrote since it started
SweepDone ==
    /\ expirer.pc = "select"
    /\ hist.swept
    /\ hist.clean
    /\ hist.lateTicks = 0

\* C13: after one sweep without concurrent writers, every identity other
\* than self that had a node record has lost the record and all its fields
\* when its last pong was older than the expiry threshold, and has kept them
\* when its last pong was within the threshold.
C13_SweepExpiresStaleKeepsFresh ==
    SweepDone =>
        \A id \in NodeIDs \ {self} :
            LET before == RecordOf(hist.sweepPre, id) IN
            before.node # NilNode =>
                /\ before.pong < expirer.threshold => RecordOf(lvl, id) = NoRecord
                /\ before.pong > expirer.threshold => RecordOf(lvl, id) = before

\* C14: no step of a sweep deletes the node record stored under the
\* identity self, whatever its last pong.
C14_SweepNeverDeletesSelf ==
    [][(ExpirerNext /\ node(lvl, self) # NilNode) => node(lvl', self) # NilNode]_vars

C16_AtMostOneExpirer == hist.started <= 1

C16_Witness == hist.ensures >= 2 /\ hist.started = 1

\* C17: after close() on a database whose expirer was started, the expirer
\* eventually terminates.
C17_ExpirerStopsAfterClose ==
    (quit = "closed" /\ hist.started > 0) ~> (expirer.pc = "stopped")

\* the version check has returned the instance and nothing was called on it
Opened == inst.pc = "ready" /\ hist.calls = 0

\* C18: after newPersistentNodeDB(path, v, self) succeeds the version marker
\* is v; when the store held another marker no record it held remains, when
\* it held the same marker or none every record is kept; the directory is
\* recreated at most once.
C18_OpenChecksVersion ==
    /\ inst.retries <= 1
    /\ Opened =>
        /\ nodeDBVersionKey \in DOMAIN lvl
        /\ lvl[nodeDBVersionKey] = IntBlob(inst.version)
        /\ LET old == DOMAIN hist.openPre \ {nodeDBVersionKey} IN
           IF nodeDBVersionKey \in DOMAIN hist.openPre
              /\ hist.openPre[nodeDBVersionKey] # IntBlob(inst.version)
           THEN DOMAIN lvl = {nodeDBVersionKey}
           ELSE /\ DOMAIN lvl = old \cup {nodeDBVersionKey}
                /\ \A k \in old : lvl[k] = hist.openPre[k]

\* a store with a record and another version was recreated and opened
C18_Witness ==
    /\ Opened
    /\ inst.retries = 1
    /\ DOMAIN hist.openPre \ {nodeDBVersionKey} # {}

\* C19: querySeeds makes at most 5*n seeks and then returns, also when every
\* seek is rejected.
C19_QuerySeedsSeekBound ==
    /\ seeds.seeks <= 5 * seeds.n
    /\ (seeds.pc = "loop" /\ seeds.seeks = 5 * seeds.n) => ENABLED QuerySeedsReturn

\* a call that wanted nodes returned none after 5*n rejected seeks
C19_Witness ==
    /\ seeds.pc = "done"
    /\ seeds.n > 0
    /\ seeds.nodes = <<>>
    /\ seeds.seeks = 5 * seeds.n

\* C20: splitKey inverts makeKey: splitKey(makeKey(id, f)) = (id, f) for
\* every identity and field.
C20_SplitKeyInvertsMakeKey ==
    codec.pc = "split" => codec.out = [id |-> codec.id, field |-> codec.field]

\* the round trip holds for the zero identity
SplitKeyInvertsMakeKeyNilNodeID ==
    (codec.pc = "split" /\ codec.id = nodeDBNilNodeID) =>
        codec.out = [id |-> codec.id, field |-> codec.field]

\* what updateLastPing(id, instance) has to leave of the store "before": the
\* last ping of id is the instance without its part below the unit, every
\* other result of the accessors is the one before the call, and an identity
\* without a last-pong entry has the zero time as its last pong before and
\* after the call
UpdateLastPingFrame(before, after, id, instance) ==
    /\ TimeUnix(lastPing(after, id)) = [instance EXCEPT !.nsec = 0]
    /\ \A x \in NodeIDs :
          /\ node(after, x) = node(before, x)
          /\ lastPong(after, x) = lastPong(before, x)
          /\ findFails(after, x) = findFails(before, x)
          /\ x # id => lastPing(after, x) = lastPing(before, x)
          /\ makeKey(x, nodeDBDiscoverPong) \notin DOMAIN before =>
                /\ lastPong(before, x) = 0
                /\ lastPong(after, x) = 0

\* C21: updateLastPing(id, t) changes only the last-ping field of id:
\* afterwards lastPing(id) is t truncated to seconds, and the last pong of an
\* identity with no stored pong value is the zero time before and after.
C21_UpdateLastPingChangesOnlyLastPing ==
    [][\A id \in Peers, instance \in Instants :
          CallUpdateLastPing(id, instance) =>
              UpdateLastPingFrame(lvl, lvl', id, instance)]_vars

\* the frame holds for the calls that name the zero identity
UpdateLastPingFrameNilNodeID ==
    [][\A instance \in Instants :
          CallUpdateLastPing(nodeDBNilNodeID, instance) =>
              UpdateLastPingFrame(lvl, lvl', nodeDBNilNodeID, instance)]_vars

\* the stored keys of the record set of id, as a sweep recognises them: the
\* key splits into id and a field under the root ":discover"
KeysOfNode(store, id) ==
    {k \in DOMAIN store :
        /\ splitKey(k).id = id
        /\ HasPrefix(splitKey(k).field, nodeDBDiscoverRoot)}

\* C22: deleteNode(id), called by a sweep, removes every stored key that
\* belongs to id and nothing else: the keys of other identities, the
\* process-global keys and the version marker stay as they were.
C22_DeleteNodeRemovesOnlyKeysOfNode ==
    [][(ExpireNodesDelete /\ inst.pc = "ready") =>
          /\ KeysOfNode(lvl', expirer.id) = {}
          /\ \A k \in DOMAIN lvl \ KeysOfNode(lvl, expirer.id) :
                k \in DOMAIN lvl' /\ lvl'[k] = lvl[k]]_vars

\* the half of the frame that holds: no key of id is left, and no key is
\* added or rewritten
DeleteNodeRemovesKeysOfNode ==
    [][(ExpireNodesDelete /\ inst.pc = "ready") =>
          /\ KeysOfNode(lvl', expirer.id) = {}
          /\ \A k \in DOMAIN lvl' : k \in DOMAIN lvl /\ lvl'[k] = lvl[k]]_vars

RECURSIVE OldChainAbove(_, _)
\* the headers of the chain the call started from that lie above height h:
\* the head of that time and its ancestors, as far as they were stored
OldChainAbove(hdr, h) ==
    IF hdr = NilHeader \/ hdr.Number <= h
          \/ <<hdr.Number, Hash(hdr)>> \notin pre.headers
    THEN {}
    ELSE {hdr} \cup OldChainAbove(HeaderByHash(hdr.ParentHash), h)

\* the canonical index has no entry above the height of CurrentHeader()
NoCanonicalAboveCurrentHeader ==
    \A n \in DOMAIN dbCanon : n <= CurrentHeader.Number

\* no header of the old chain above the target height is left in the store
NoOldHeaderAbove ==
    \A hdr \in OldChainAbove(pre.cur, call.head) :
        <<hdr.Number, Hash(hdr)>> \notin DOMAIN dbHeader

\* C23: whenever SetHead(h, cb) has returned, the canonical index has no entry
\* at a height above CurrentHeader().Number and no header of the old chain
\* above height h is left in durable storage, also when the rewind stopped
\* at a missing parent and the head fell back to genesis.
C23_SetHeadLeavesNothingAboveHead ==
    SetHeadReturned => (NoCanonicalAboveCurrentHeader /\ NoOldHeaderAbove)

\* the two halves of C23, each on its own
SetHeadLeavesNoCanonicalAboveHead ==
    SetHeadReturned => NoCanonicalAboveCurrentHeader

SetHeadLeavesNoOldHeaderAbove ==
    SetHeadReturned => NoOldHeaderAbove

\* the case of C23 in which the walk ended on a missing parent
SetHeadFallbackLeavesNoCanonicalAboveHead ==
    (SetHeadReturned /\ EventsAt("nil") # {}) => NoCanonicalAboveCurrentHeader

\* C23 for the calls that start from a linear canonical chain with the head
\* at its tip
SetHeadOfLinearChainLeavesNothingAboveHead ==
    (SetHeadReturned /\ LinearChainBefore) =>
        (NoCanonicalAboveCurrentHeader /\ NoOldHeaderAbove)

\* the deleteNode step of a sweep takes away the node record of a peer
\* other than self
SweepDeletesPeer ==
    /\ ExpireNodesDelete
    /\ expirer.id # self
    /\ node(lvl, expirer.id) # NilNode
    /\ node(lvl', expirer.id) = NilNode

\* C24: with a sweep interleaved with the writes that refresh last-pong
\* times, the sweep never deletes the record set of a peer other than self
\* whose stored last pong is within the expiry threshold at the moment of the
\* deletion.
C24_SweepNeverDeletesFreshPeer ==
    [][SweepDeletesPeer => ~(lastPong(lvl, expirer.id) > expirer.threshold)]_vars

\* without a write between the last-pong check of the sweep and its
\* deleteNode, the peer deleted is stale
SweepAloneNeverDeletesFreshPeer ==
    [][(SweepDeletesPeer /\ hist.clean) =>
          ~(lastPong(lvl, expirer.id) > expirer.threshold)]_vars

====
